---- MODULE Spec2Model ----
(***************************************************************************)
(* Model of scripts/ingest_who.py: the offset-paginated fetch loop         *)
(* (iter_pages), the raw JSONL sink (write_jsonl), the dual sink           *)
(* (write_jsonl_and_snowflake) and the coordinator (main).                 *)
(*                                                                         *)
(* The program is single threaded.  iter_pages is a generator: it runs     *)
(* only while its consumer is blocked in next(), which is pc = "pull".     *)
(* A Record is modelled by its position in the remote result set (the      *)
(* record at offset k is the integer k + 1), so that order, duplication    *)
(* and loss are all observable.                                            *)
(***************************************************************************)
EXTENDS Integers, Sequences, FiniteSets, TLC

\* ------------------------------------------------------------- bounds
MaxPageSize == 3
MaxCap == 3
MaxTotal == 5
MaxBatch == 2

\* ---------------------------------------------------------- constants
\* max_rows: Optional[int]; None (no row cap) is represented by -1.
None == -1
\* resp.status_code != 200 is a fetch failure.
StatusOK == 200
\* the statuses a response may carry: success, and one failing status.
Statuses == {StatusOK, 500}

VARIABLES
    \* run parameters (argparse results, fixed for the run)
    page_size, max_rows, batch_size, snowflake,
    \* the remote API: size of the result set, and whether the server
    \* honours $skip/$top exactly
    total, honours,
    \* whether an earlier run of the same indicator and day left a file
    prior_file,
    \* local file system
    file_exists, file, fstate, meta_written,
    \* warehouse
    opens, closes, table_ok, inserts, commit_calls, commits,
    \* consumer (main / write_jsonl / write_jsonl_and_snowflake)
    pc, err, n, batch, cur,
    \* generator frame of iter_pages
    gpc, fetched, skip, top, rows, idx,
    \* observation of the run: requests issued, records received from the
    \* API in delivery order, records yielded by iter_pages
    fetches, delivered, yielded

params == <<page_size, max_rows, batch_size, snowflake, total, honours,
           prior_file>>
fsvars == <<file_exists, file, fstate, meta_written>>
whvars == <<opens, closes, table_ok, inserts, commit_calls, commits>>
convars == <<n, batch>>
genvars == <<gpc, fetched, skip, top, rows, idx>>
obsvars == <<fetches, delivered, yielded>>
vars == <<params, fsvars, whvars, pc, err, convars, cur, genvars, obsvars>>

\* ------------------------------------------------------------ helpers
Min(a, b) == IF a <= b THEN a ELSE b

Max(a, b) == IF a >= b THEN a ELSE b

\* json.dumps(row): the serialized line; json.loads is its inverse on lines.
dumps(r) == [json |-> r]

loads(line) == line.json

\* what an earlier run on the same day may have left at the target path
StaleFile == <<dumps(0)>>

\* ---------------------------------------------------------- remote API
\* The records at offsets off .. off+k-1 of the result set.
Slice(off, k) == [i \in 1..k |-> off + i]

\* The pages the server may answer to GET ...?$top=t&$skip=s with status 200.
\* A server that honours $skip/$top returns the t records at offset s, fewer
\* at the end of the data.  Any other server may return any number of the
\* remaining records (more than $top, fewer, or none).
ServerPages(s, t) ==
    IF honours
    THEN {Slice(s, Max(0, Min(t, total - s)))}
    ELSE {Slice(s, k) : k \in 0..Max(0, total - s)}

\* ------------------------------------------------------------- Init
\* The state at the start of main.  Page sizes are > 0 (the Page Fetcher's
\* input contract) and a row cap is a count >= 0 or None; batch size 0 is
\* included because main rejects it.  The target path may hold the file
\* of an earlier run of the same indicator and day.
Init ==
    /\ page_size \in 1..MaxPageSize
    /\ max_rows \in {None} \cup (0..MaxCap)
    /\ batch_size \in 0..MaxBatch
    /\ snowflake \in BOOLEAN
    /\ total \in 0..MaxTotal
    /\ honours \in BOOLEAN
    /\ prior_file \in BOOLEAN
    /\ file_exists = prior_file
    /\ file = IF file_exists THEN StaleFile ELSE <<>>
    /\ fstate = "unopened"
    /\ meta_written = FALSE
    /\ opens = 0 /\ closes = 0 /\ table_ok = FALSE
    /\ inserts = <<>> /\ commit_calls = 0 /\ commits = 0
    /\ pc = "main" /\ err = "none"
    /\ n = 0 /\ batch = <<>> /\ cur = 0
    /\ gpc = "top" /\ fetched = 0 /\ skip = 0 /\ top = 0
    /\ rows = <<>> /\ idx = 0
    /\ fetches = <<>> /\ delivered = <<>> /\ yielded = <<>>

\* ------------------------------------------------------------- main
\* main, line 267: --snowflake-batch-size must be > 0.
MainBadBatch ==
    /\ pc = "main"
    /\ batch_size <= 0
    /\ pc' = "done"
    /\ err' = "SystemExit"
    /\ UNCHANGED <<params, fsvars, whvars, convars, cur, genvars, obsvars>>

\* MainSetup that leaves the sidecar for after the pipeline.
MainSetup_MetaLater ==
    /\ pc = "main"
    /\ batch_size > 0
    /\ pc' = IF snowflake THEN "sf_config" ELSE "raw_open"
    /\ UNCHANGED <<params, fsvars, whvars, err, convars, cur, genvars,
                   obsvars>>

\* main, lines 270-319: directory setup, metadata sidecar, construction of
\* the (not yet started) generator, dispatch on --snowflake.
MainSetup ==
    /\ pc = "main"
    /\ batch_size > 0
    /\ meta_written' = TRUE
    /\ pc' = IF snowflake THEN "sf_config" ELSE "raw_open"
    /\ UNCHANGED <<params, file_exists, file, fstate, whvars, err, convars,
                   cur, genvars, obsvars>>

\* ------------------------------------------------------- iter_pages
\* RequestedTop without the clamp of line 97.
RequestedTop_NoClamp(ps, mr, f) == ps

\* lines 92-97: the page size to request.
RequestedTop(ps, mr, f) == IF mr # None THEN Min(ps, mr - f) ELSE ps

\* CapReached with < for the <= of line 95.
CapReached_Strict(mr, f) == mr # None /\ mr - f < 0

\* lines 93-96: the row budget is used up.
CapReached(mr, f) == mr # None /\ mr - f <= 0

\* lines 90-97: top of the loop.
GenTop ==
    /\ pc = "pull" /\ gpc = "top"
    /\ IF CapReached(max_rows, fetched)
       THEN /\ gpc' = "done"
            /\ pc' = "eos"
            /\ top' = page_size
       ELSE /\ gpc' = "fetch"
            /\ pc' = pc
            /\ top' = RequestedTop(page_size, max_rows, fetched)
    /\ UNCHANGED <<params, fsvars, whvars, err, convars, cur, fetched, skip,
                   rows, idx, obsvars>>

\* EndOfData that ends the sequence on an empty page only when no cap is set.
EndOfData_UncappedOnly(page) == page = <<>> /\ max_rows = None

\* EndOfData that also stops on a page shorter than the size requested.
EndOfData_ShortPage(page) == Len(page) < top

\* lines 104-107: an empty page ends the sequence.
EndOfData(page) == page = <<>>

\* FetchFailed that never looks at the status.
FetchFailed_Never(status) == FALSE

\* line 101: a status other than 200 is a failure.
FetchFailed(status) == status # StatusOK

\* lines 99-108: one request.  A failure status raises, an empty page
\* returns, any other page is handed to the for loop of line 109.
GenFetch ==
    /\ pc = "pull" /\ gpc = "fetch"
    /\ \E status \in Statuses :
       \E page \in (IF status = StatusOK THEN ServerPages(skip, top) ELSE {<<>>}) :
          /\ fetches' = Append(fetches,
                 [skip |-> skip, top |-> top, status |-> status, got |-> Len(page)])
          /\ IF FetchFailed(status)
             THEN /\ gpc' = "raised"
                  /\ pc' = "raise"
                  /\ UNCHANGED <<rows, idx, delivered>>
             ELSE /\ rows' = page
                  /\ idx' = 0
                  /\ delivered' = delivered \o page
                  /\ IF EndOfData(page)
                     THEN /\ gpc' = "done"
                          /\ pc' = "eos"
                     ELSE /\ gpc' = "inpage"
                          /\ pc' = pc
    /\ UNCHANGED <<params, fsvars, whvars, err, convars, cur, fetched, skip,
                   top, yielded>>

\* lines 109-110: the next record of the current page.
GenNext ==
    /\ pc = "pull" /\ gpc = "inpage"
    /\ idx < Len(rows)
    /\ idx' = idx + 1
    /\ cur' = rows[idx + 1]
    /\ yielded' = Append(yielded, rows[idx + 1])
    /\ pc' = "got"
    /\ UNCHANGED <<params, fsvars, whvars, err, convars, gpc, fetched, skip,
                   top, rows, fetches, delivered>>

\* NextSkip that advances by the configured page size, not by what arrived.
NextSkip_ByPageSize(s, page) == s + page_size

\* line 112: the next offset.
NextSkip(s, page) == s + Len(page)

\* NextFetched that never counts.
NextFetched_Stuck(f, page) == f

\* line 111: the count of records fetched so far.
NextFetched(f, page) == f + Len(page)

\* lines 111-115: the page is used up; advance the counters (and sleep).
GenAdvance ==
    /\ pc = "pull" /\ gpc = "inpage"
    /\ idx = Len(rows)
    /\ fetched' = NextFetched(fetched, rows)
    /\ skip' = NextSkip(skip, rows)
    /\ gpc' = "top"
    /\ UNCHANGED <<params, fsvars, whvars, pc, err, convars, cur, top, rows,
                   idx, obsvars>>

\* ------------------------------------------------------ write_jsonl
\* OpenForWrite in append mode: what is there is kept.
OpenForWrite_Append(f) == f

\* lines 127, 202: the content of the target after path.open("w").
OpenForWrite(f) == <<>>

\* line 127: path.open("w") creates or truncates the target, or fails.
RawOpen ==
    /\ pc = "raw_open"
    /\ \/ /\ file_exists' = TRUE
          /\ file' = OpenForWrite(file)
          /\ fstate' = "open"
          /\ n' = 0
          /\ pc' = "pull"
          /\ err' = err
       \/ /\ err' = "IOError"
          /\ pc' = "done"
          /\ UNCHANGED <<file_exists, file, fstate, n>>
    /\ UNCHANGED <<params, meta_written, whvars, batch, cur, genvars, obsvars>>

\* FileAppend that rewrites the file with each record.
FileAppend_Overwrite(f, r) == <<dumps(r)>>

\* FileAppend that holds the line back instead of writing it.
FileAppend_Buffered(f, r) == f

\* lines 129-130: one record, one newline-terminated line at the end.
FileAppend(f, r) == Append(f, dumps(r))

\* lines 128-131: one record written, or the write fails and the with
\* block closes the file on the way out.
RawWriteRow ==
    /\ pc = "got" /\ ~snowflake
    /\ \/ /\ file' = FileAppend(file, cur)
          /\ n' = n + 1
          /\ pc' = "pull"
          /\ UNCHANGED <<fstate, err>>
       \/ /\ err' = "IOError"
          /\ fstate' = "closed"
          /\ pc' = "done"
          /\ UNCHANGED <<file, n>>
    /\ UNCHANGED <<params, file_exists, meta_written, whvars, batch, cur,
                   genvars, obsvars>>

\* lines 128, 132: StopIteration ends the loop; the file is closed, n returned.
RawReturn ==
    /\ pc = "eos" /\ ~snowflake
    /\ fstate' = "closed"
    /\ pc' = "done"
    /\ UNCHANGED <<params, file_exists, file, meta_written, whvars, err,
                   convars, cur, genvars, obsvars>>

\* lines 127-128: the generator's RuntimeError leaves through the with block.
RawRaise ==
    /\ pc = "raise" /\ ~snowflake
    /\ err' = "RemoteError"
    /\ fstate' = "closed"
    /\ pc' = "done"
    /\ UNCHANGED <<params, file_exists, file, meta_written, whvars, convars,
                   cur, genvars, obsvars>>

\* ---------------------------------------- write_jsonl_and_snowflake
\* SfConfig entered with the output file already opened for writing.
SfConfig_FileFirst ==
    /\ pc = "sf_config"
    /\ file_exists' = TRUE
    /\ file' = OpenForWrite(file)
    /\ \/ /\ pc' = "sf_connect"
          /\ err' = err
       \/ /\ err' = "ConfigError"
          /\ pc' = "done"
    /\ UNCHANGED <<params, fstate, meta_written, whvars, convars, cur,
                   genvars, obsvars>>

\* line 194, get_snowflake_config: the required variables are set, or not.
SfConfig ==
    /\ pc = "sf_config"
    /\ \/ /\ pc' = "sf_connect"
          /\ err' = err
       \/ /\ err' = "ConfigError"
          /\ pc' = "done"
    /\ UNCHANGED <<params, fsvars, whvars, convars, cur, genvars, obsvars>>

\* line 195, connect_to_snowflake: before the try, so a failure closes nothing.
SfConnect ==
    /\ pc = "sf_connect"
    /\ \/ /\ opens' = opens + 1
          /\ pc' = "sf_table"
          /\ err' = err
       \/ /\ err' = "ConnectError"
          /\ pc' = "done"
          /\ opens' = opens
    /\ UNCHANGED <<params, fsvars, closes, table_ok, inserts, commit_calls,
                   commits, convars, cur, genvars, obsvars>>

\* SfEnsureTable that swallows a table-creation failure and goes on.
SfEnsureTable_IgnoreFailure ==
    /\ pc = "sf_table"
    /\ \/ table_ok' = TRUE
       \/ table_ok' = table_ok
    /\ pc' = "sf_open"
    /\ UNCHANGED <<params, fsvars, opens, closes, inserts, commit_calls,
                   commits, err, convars, cur, genvars, obsvars>>

\* lines 197-198, ensure_snowflake_table: CREATE TABLE IF NOT EXISTS.
SfEnsureTable ==
    /\ pc = "sf_table"
    /\ \/ /\ table_ok' = TRUE
          /\ pc' = "sf_open"
          /\ err' = err
       \/ /\ err' = "TableError"
          /\ pc' = "sf_finally"
          /\ table_ok' = table_ok
    /\ UNCHANGED <<params, fsvars, opens, closes, inserts, commit_calls,
                   commits, convars, cur, genvars, obsvars>>

\* lines 200-202: n = 0, batch = [], path.open("w").
SfOpen ==
    /\ pc = "sf_open"
    /\ n' = 0
    /\ batch' = <<>>
    /\ \/ /\ file_exists' = TRUE
          /\ file' = OpenForWrite(file)
          /\ fstate' = "open"
          /\ pc' = "pull"
          /\ err' = err
       \/ /\ err' = "IOError"
          /\ pc' = "sf_finally"
          /\ UNCHANGED <<file_exists, file, fstate>>
    /\ UNCHANGED <<params, meta_written, whvars, cur, genvars, obsvars>>

\* line 207: the row tuple (indicator and ingest date are the same in every
\* row of a run and are left out): the correlation id and the payload.
RowTuple(r) == [id |-> r, data |-> dumps(r)]

\* BatchAppend that inserts at the front.
BatchAppend_Prepend(b, r) == <<RowTuple(r)>> \o b

\* line 207: batch.append(...)
BatchAppend(b, r) == Append(b, RowTuple(r))

\* FlushDue with > for the >= of line 210.
FlushDue_Strict(b, bs) == Len(b) > bs

\* line 210: the batch is due for an insert.
FlushDue(b, bs) == Len(b) >= bs

\* lines 204-210: serialize, write the line, append to the batch, count; or
\* the write fails and the exception leaves the with block.
SfWriteRow ==
    /\ pc = "got" /\ snowflake
    /\ \/ /\ file' = FileAppend(file, cur)
          /\ batch' = BatchAppend(batch, cur)
          /\ n' = n + 1
          /\ pc' = IF FlushDue(batch', batch_size) THEN "sf_flush" ELSE "pull"
          /\ UNCHANGED <<fstate, err>>
       \/ /\ err' = "IOError"
          /\ fstate' = "closed"
          /\ pc' = "sf_finally"
          /\ UNCHANGED <<file, batch, n>>
    /\ UNCHANGED <<params, file_exists, meta_written, whvars, cur, genvars,
                   obsvars>>

\* SfFlush without the batch.clear() of line 216.
SfFlush_NoClear ==
    /\ pc = "sf_flush"
    /\ \/ /\ inserts' = Append(inserts, [rows |-> batch, ok |-> TRUE])
          /\ pc' = "pull"
          /\ UNCHANGED <<fstate, err>>
       \/ /\ inserts' = Append(inserts, [rows |-> batch, ok |-> FALSE])
          /\ err' = "InsertError"
          /\ fstate' = "closed"
          /\ pc' = "sf_finally"
    /\ UNCHANGED <<params, file_exists, file, meta_written, opens, closes,
                   table_ok, commit_calls, commits, convars, cur, genvars,
                   obsvars>>

\* lines 211-216: executemany on the full batch, then batch.clear(); or the
\* insert fails, the batch is left as it was and the with block closes the file.
SfFlush ==
    /\ pc = "sf_flush"
    /\ \/ /\ inserts' = Append(inserts, [rows |-> batch, ok |-> TRUE])
          /\ batch' = <<>>
          /\ pc' = "pull"
          /\ UNCHANGED <<fstate, err>>
       \/ /\ inserts' = Append(inserts, [rows |-> batch, ok |-> FALSE])
          /\ err' = "InsertError"
          /\ fstate' = "closed"
          /\ pc' = "sf_finally"
          /\ batch' = batch
    /\ UNCHANGED <<params, file_exists, file, meta_written, opens, closes,
                   table_ok, commit_calls, commits, n, cur, genvars, obsvars>>

\* TailDue that forgets the trailing batch.
TailDue_Never(b) == FALSE

\* line 218: a trailing partial batch is left to insert.
TailDue(b) == b # <<>>

\* lines 203, 218: StopIteration ends the loop and the with block.
SfEos ==
    /\ pc = "eos" /\ snowflake
    /\ fstate' = "closed"
    /\ pc' = IF TailDue(batch) THEN "sf_tail" ELSE "sf_commit"
    /\ UNCHANGED <<params, file_exists, file, meta_written, whvars, err,
                   convars, cur, genvars, obsvars>>

\* lines 219-223: executemany on the trailing batch (which is not cleared).
SfTail ==
    /\ pc = "sf_tail"
    /\ \/ /\ inserts' = Append(inserts, [rows |-> batch, ok |-> TRUE])
          /\ pc' = "sf_commit"
          /\ err' = err
       \/ /\ inserts' = Append(inserts, [rows |-> batch, ok |-> FALSE])
          /\ err' = "InsertError"
          /\ pc' = "sf_finally"
    /\ UNCHANGED <<params, fsvars, opens, closes, table_ok, commit_calls,
                   commits, convars, cur, genvars, obsvars>>

\* lines 225-226: conn.commit(), then return n through the finally.
SfCommit ==
    /\ pc = "sf_commit"
    /\ commit_calls' = commit_calls + 1
    /\ \/ /\ commits' = commits + 1
          /\ err' = err
       \/ /\ err' = "CommitError"
          /\ commits' = commits
    /\ pc' = "sf_finally"
    /\ UNCHANGED <<params, fsvars, opens, closes, table_ok, inserts, convars,
                   cur, genvars, obsvars>>

\* lines 203, 227: the generator's RuntimeError leaves the with block and
\* the try.
SfRaise ==
    /\ pc = "raise" /\ snowflake
    /\ err' = "RemoteError"
    /\ fstate' = "closed"
    /\ pc' = "sf_finally"
    /\ UNCHANGED <<params, file_exists, file, meta_written, whvars, convars,
                   cur, genvars, obsvars>>

\* SfFinally with the close on the success path only (no finally).
SfFinally_OnSuccessOnly ==
    /\ pc = "sf_finally"
    /\ closes' = IF err = "none" THEN closes + 1 ELSE closes
    /\ pc' = "done"
    /\ UNCHANGED <<params, fsvars, opens, table_ok, inserts, commit_calls,
                   commits, err, convars, cur, genvars, obsvars>>

\* lines 227-228: finally: conn.close(), on the normal and on every
\* exceptional way out of the try.
SfFinally ==
    /\ pc = "sf_finally"
    /\ closes' = closes + 1
    /\ pc' = "done"
    /\ UNCHANGED <<params, fsvars, opens, table_ok, inserts, commit_calls,
                   commits, err, convars, cur, genvars, obsvars>>

\* -------------------------------------------------------------- Next
Next ==
    \/ MainBadBatch
    \/ MainSetup
    \/ GenTop
    \/ GenFetch
    \/ GenNext
    \/ GenAdvance
    \/ RawOpen
    \/ RawWriteRow
    \/ RawReturn
    \/ RawRaise
    \/ SfConfig
    \/ SfConnect
    \/ SfEnsureTable
    \/ SfOpen
    \/ SfWriteRow
    \/ SfFlush
    \/ SfEos
    \/ SfTail
    \/ SfCommit
    \/ SfRaise
    \/ SfFinally

Spec == Init /\ [][Next]_vars

\* The program is one thread that runs until it returns or raises: a step
\* that can be taken is taken.
FairSpec == Spec /\ WF_vars(Next)
\* ---------------------------------------------------------- properties
RECURSIVE Concat(_)
Concat(ss) == IF ss = <<>> THEN <<>> ELSE Head(ss) \o Concat(Tail(ss))

RECURSIVE SeqSum(_)
SeqSum(s) == IF s = <<>> THEN 0 ELSE Head(s) + SeqSum(Tail(s))

IsPrefix(s, t) == Len(s) <= Len(t) /\ SubSeq(t, 1, Len(s)) = s

\* ceil(a / b) for a >= 0, b >= 1
CeilDiv(a, b) == (a + b - 1) \div b

\* what the run has observed
Got(fs) == [i \in 1..Len(fs) |-> fs[i].got]

\* records received in the first k fetches
Received(k) == SeqSum(SubSeq(Got(fetches), 1, k))

\* a fetch answered with status 200 and no records
EmptyPage(i) == fetches[i].status = StatusOK /\ fetches[i].got = 0

\* iter_pages has returned (StopIteration), as opposed to raised or suspended
Exhausted == gpc = "done"

FileRecords == [i \in 1..Len(file) |-> loads(file[i])]

InsertSizes == [i \in 1..Len(inserts) |-> Len(inserts[i].rows)]

InsertedRows == Concat([i \in 1..Len(inserts) |-> inserts[i].rows])

InsertedRecords == [i \in 1..Len(InsertedRows) |-> loads(InsertedRows[i].data)]

\* C1: against a server that honours $skip/$top over a result set of `total`
\* records, a run of iter_pages to exhaustion yields min(total, row cap)
\* records, and `total` records when there is no cap.
C1_YieldCount ==
    (honours /\ Exhausted) =>
        Len(yielded) = (IF max_rows = None THEN total ELSE Min(total, max_rows))

C1_Witness ==
    /\ honours /\ Exhausted
    /\ max_rows # None /\ max_rows < total /\ page_size < max_rows
    /\ Len(yielded) = max_rows

\* C2 as stated: the sequence yielded by an exhausted iter_pages is empty if
\* and only if the row cap is 0.
C2_EmptyIffCapZero ==
    Exhausted => (yielded = <<>> <=> max_rows = 0)

\* C2 as amended: the sequence yielded by an exhausted iter_pages is empty if
\* and only if the row cap is 0 or the first page fetched is empty; against a
\* server that honours $skip/$top that is: the cap is 0 or there are no records.
C2_EmptyIffCapZeroOrNoData ==
    Exhausted =>
        /\ yielded = <<>> <=>
              (max_rows = 0 \/ (fetches # <<>> /\ EmptyPage(1)))
        /\ honours => (yielded = <<>> <=> (max_rows = 0 \/ total = 0))

C2_Witness ==
    /\ Exhausted /\ yielded = <<>>
    /\ max_rows # 0 /\ total = 0
    /\ Len(fetches) = 1

\* C3: the offset of every fetch equals the number of records received from
\* all earlier fetches of the run, and the offsets are strictly increasing.
C3_CursorIsCumulative ==
    \A i \in 1..Len(fetches) :
        /\ fetches[i].skip = Received(i - 1)
        /\ i > 1 => fetches[i].skip > fetches[i - 1].skip

C3_Witness ==
    /\ Len(fetches) >= 3
    /\ fetches[2].got < fetches[2].top
    /\ fetches[3].skip = fetches[1].got + fetches[2].got

\* C4: an empty page is the last thing iter_pages does, cap or no cap: it is
\* the last fetch, the generator has returned, and nothing is yielded
\* beyond the records received before it.
C4_StopsOnEmptyPage ==
    \A i \in 1..Len(fetches) :
        EmptyPage(i) =>
            /\ i = Len(fetches)
            /\ Exhausted
            /\ Len(yielded) = Received(i)

C4_Witness ==
    /\ fetches # <<>> /\ EmptyPage(Len(fetches))
    /\ max_rows # None /\ Len(yielded) < max_rows
    /\ Len(yielded) > 0
    /\ pc = "done"

\* C5: with a row cap, every fetch asks for min(page size, cap - records
\* received so far), which is > 0: there is no fetch at or beyond the cap.
C5_ClampedRequest ==
    max_rows # None =>
        \A i \in 1..Len(fetches) :
            /\ fetches[i].top = Min(page_size, max_rows - Received(i - 1))
            /\ fetches[i].top > 0
            /\ Received(i - 1) < max_rows

C5_Witness ==
    /\ page_size = 2 /\ max_rows = 3
    /\ Exhausted
    /\ Len(fetches) = 2
    /\ fetches[2].top = 1 /\ fetches[2].got = 1

\* C6 as stated: with a row cap, whatever pages the server returns, the
\* number of records yielded never exceeds the cap.
C6_CapNeverExceeded ==
    max_rows # None => Len(yielded) <= max_rows

\* C7: a run of the dual sink that consumes its stream of n records without
\* failure has issued ceil(n / batch_size) inserts, all of batch_size rows
\* but the last, which has 1..batch_size rows; no insert is ever empty.
C7_InsertCount ==
    /\ \A i \in 1..Len(inserts) :
          InsertSizes[i] >= 1 /\ InsertSizes[i] <= batch_size
    /\ (snowflake /\ pc = "done" /\ err = "none") =>
          /\ n = Len(yielded)
          /\ Len(inserts) = CeilDiv(n, batch_size)
          /\ \A i \in 1..(Len(inserts) - 1) : InsertSizes[i] = batch_size

C7_Witness ==
    /\ snowflake /\ pc = "done" /\ err = "none"
    /\ batch_size = 2 /\ n = 5
    /\ InsertSizes = <<2, 2, 1>>

\* C8: commit is called at most once, and only when the stream is exhausted
\* and every record yielded is in an insert that succeeded; after a fetch,
\* file, table or insert failure it is not called at all.
C8_CommitOnceAtEnd ==
    /\ commit_calls <= 1
    /\ commits <= commit_calls
    /\ commit_calls = 1 =>
          /\ Exhausted
          /\ \A i \in 1..Len(inserts) : inserts[i].ok
          /\ InsertedRecords = yielded
    /\ err \in {"RemoteError", "IOError", "TableError", "InsertError"} =>
          commit_calls = 0

C8_Witness ==
    /\ commits = 1
    /\ Len(inserts) >= 2
    /\ InsertSizes[Len(inserts)] < batch_size

\* C9: a connection that was opened is closed exactly once by the time
\* write_jsonl_and_snowflake is left, whichever way it is left, and is not
\* closed before.
C9_ConnectionClosedOnce ==
    /\ opens <= 1
    /\ closes <= opens
    /\ pc = "done" => closes = opens
    /\ pc # "done" => closes = 0

C9_Witness ==
    /\ pc = "done" /\ err = "InsertError"
    /\ opens = 1 /\ closes = 1

\* C10: once the run has opened its output file, the records in the file
\* and the records passed to inserts so far are each a prefix of the records
\* in API delivery order.
C10_OrderPreserved ==
    /\ fstate # "unopened" => IsPrefix(FileRecords, delivered)
    /\ IsPrefix(InsertedRecords, delivered)

C10_Witness ==
    /\ Len(fetches) >= 2
    /\ Len(file) >= 3
    /\ Len(inserts) >= 2
    /\ InsertSizes[1] = 2
    /\ InsertedRecords = FileRecords
\* a fetch answered with a status other than 200
FailedFetch(i) == fetches[i].status # StatusOK

\* C11: a fetch that fails is the last fetch of the run; the generator has
\* raised, the run ends with the error and without a commit, and the file
\* holds exactly the records of the pages received before it, in order.
C11_AbortOnFailedFetch ==
    \A i \in 1..Len(fetches) :
        FailedFetch(i) =>
            /\ i = Len(fetches)
            /\ gpc = "raised"
            /\ pc \in {"raise", "sf_finally", "done"}
            /\ pc # "raise" => err = "RemoteError"
            /\ commit_calls = 0
            /\ FileRecords = delivered
            /\ Len(file) = Received(i - 1)

C11_Witness ==
    /\ Len(fetches) = 2 /\ FailedFetch(2)
    /\ pc = "done" /\ err = "RemoteError"
    /\ Len(file) = fetches[1].got
    /\ Len(file) > 0 /\ Len(file) < total

\* C12: a run of the dual sink that ends without error returns the number
\* of lines in the file, which is the number of rows passed to inserts, and
\* the i-th row inserted carries the i-th line of the file as its payload.
C12_OneRowPerRecord ==
    (snowflake /\ pc = "done" /\ err = "none") =>
        /\ n = Len(file)
        /\ n = Len(InsertedRows)
        /\ \A i \in 1..Len(InsertedRows) :
              i <= Len(file) /\ InsertedRows[i].data = file[i]

C12_Witness ==
    /\ snowflake /\ pc = "done" /\ err = "none"
    /\ n = 3 /\ Len(inserts) = 2
    /\ Len(fetches) >= 2

\* C13: the sidecar is written before the first fetch and stays in place:
\* it is there in every state after main's setup, whatever has failed since.
C13_MetaBeforeFetch ==
    /\ fetches # <<>> => meta_written
    /\ (pc # "main" /\ err # "SystemExit") => meta_written

C13_Witness ==
    /\ meta_written
    /\ pc = "done" /\ err = "RemoteError"
    /\ Len(fetches) = 1
\* C14: no insert is issued unless the table-ensure step has succeeded, and
\* a run whose table-ensure step failed has no insert (and no fetch, no
\* commit) and ends with that error.
C14_TableBeforeInsert ==
    /\ inserts # <<>> => table_ok
    /\ err = "TableError" =>
          /\ ~table_ok
          /\ inserts = <<>> /\ commit_calls = 0
          /\ pc \in {"sf_finally", "done"}

C14_Witness ==
    /\ table_ok
    /\ Len(inserts) >= 2
    /\ ~inserts[Len(inserts)].ok

\* the file as it was before the run
PriorContent == IF prior_file THEN StaleFile ELSE <<>>

\* C15: once a run has opened the output file, the file holds the records
\* this run has written and nothing else, in both modes.
C15_RerunOverwrites ==
    fstate # "unopened" =>
        /\ Len(file) = n
        /\ FileRecords = SubSeq(yielded, 1, n)
        /\ \A i \in 1..Len(file) : \A j \in 1..Len(StaleFile) :
              file[i] # StaleFile[j]

C15_Witness ==
    /\ prior_file
    /\ pc = "done" /\ err = "RemoteError"
    /\ Len(fetches) = 1
    /\ fstate = "closed" /\ file = <<>>

\* rows of the inserts that succeeded
OkRows ==
    Concat([i \in 1..Len(inserts) |->
               IF inserts[i].ok THEN inserts[i].rows ELSE <<>>])

\* the for loop has ended and the trailing insert, if one was due, has
\* succeeded: the list batch is not cleared, but nothing in it is pending
TailInserted ==
    /\ snowflake
    /\ pc \in {"sf_commit", "sf_finally", "done"}
    /\ err \in {"none", "CommitError"}
    /\ fstate = "closed"

PendingRows == IF TailInserted THEN <<>> ELSE batch

\* C16: in the dual sink, from the opening of the file on, the lines of the
\* file are the rows of the successful inserts followed by the pending
\* batch; every row passed to an insert is already in the file; after a
\* failed insert the file is ahead by exactly the failed batch.
C16_FileAheadOfWarehouse ==
    (snowflake /\ fstate # "unopened") =>
        /\ Len(file) = Len(OkRows) + Len(PendingRows)
        /\ \A i \in 1..Len(OkRows \o PendingRows) :
              i <= Len(file) /\ (OkRows \o PendingRows)[i].data = file[i]
        /\ Len(InsertedRows) <= Len(file)
        /\ err = "InsertError" =>
              /\ ~inserts[Len(inserts)].ok
              /\ Len(file) - Len(OkRows) = Len(inserts[Len(inserts)].rows)

C16_Witness ==
    /\ snowflake /\ err = "InsertError" /\ pc = "done"
    /\ Len(inserts) = 2
    /\ Len(OkRows) = 2 /\ Len(file) = 4
BatchRecords == [i \in 1..Len(batch) |-> loads(batch[i].data)]

OkRecords == [i \in 1..Len(OkRows) |-> loads(OkRows[i].data)]

\* C17: a fetch is issued only when every record received so far has been
\* written to the file and, in the dual sink, is in a successful insert or
\* in the batch, which is not full; at no time is more than the current
\* page received but unwritten.
C17_NoFetchAhead ==
    /\ gpc = "fetch" =>
          /\ pc = "pull"
          /\ FileRecords = delivered
          /\ snowflake =>
                /\ OkRecords \o BatchRecords = delivered
                /\ Len(batch) < batch_size
    /\ fstate # "unopened" =>
          /\ Len(delivered) - Len(file) <= Len(rows)
          /\ Len(delivered) - Len(yielded) <= Len(rows)

C17_Witness ==
    /\ gpc = "fetch" /\ snowflake
    /\ Len(fetches) >= 2
    /\ batch # <<>> /\ inserts # <<>>
    /\ Len(file) = 3

\* every row passed to an insert, with the number of the insert
CallsOf(r) == {i \in 1..Len(inserts) :
                  \E j \in 1..Len(inserts[i].rows) : inserts[i].rows[j].id = r}

\* C18: the batch never exceeds batch_size and is below it whenever a
\* record is pulled; a full batch exists only up to its insert; rows of a
\* successful full-batch insert are not in the batch any more; an insert
\* carries a full batch or, at the end of the stream, the rest; no record
\* is in two inserts or twice in one.
C18_BatchDiscipline ==
    snowflake =>
        /\ Len(batch) <= batch_size
        /\ pc \in {"pull", "got"} => Len(batch) < batch_size
        /\ (Len(batch) = batch_size /\ batch_size > 0) =>
              \/ pc = "sf_flush"
              \/ err = "InsertError" /\ ~inserts[Len(inserts)].ok
        /\ pc \in {"pull", "got", "eos", "raise", "sf_flush", "sf_tail"} =>
              \A i \in 1..Len(batch) : CallsOf(batch[i].id) = {}
        /\ \A i \in 1..Len(inserts) :
              \/ Len(inserts[i].rows) = batch_size
              \/ i = Len(inserts) /\ Exhausted
        /\ \A r \in 1..MaxTotal + 1 : Cardinality(CallsOf(r)) <= 1
        /\ Len(InsertedRows) = Cardinality({InsertedRows[i].id :
                                               i \in 1..Len(InsertedRows)})

C18_Witness ==
    /\ snowflake /\ batch_size = 2
    /\ pc = "pull"
    /\ Len(inserts) = 2 /\ batch = <<>>
    /\ Len(yielded) = 4

\* C19, the part about the requests: without a cap, an exhausted iter_pages
\* has issued one fetch per non-empty page and one more, the last, which
\* returned the empty page; a short page is followed by another fetch.
C19_FetchCount ==
    (Exhausted /\ max_rows = None) =>
        /\ fetches # <<>>
        /\ EmptyPage(Len(fetches))
        /\ \A i \in 1..(Len(fetches) - 1) : fetches[i].got > 0
        /\ Len(yielded) = Received(Len(fetches))

\* C19: every run ends, and C19_FetchCount holds throughout.
C19_Terminates == []C19_FetchCount /\ <>(pc = "done")

C19_Witness ==
    /\ Exhausted /\ max_rows = None /\ page_size = 2
    /\ [i \in 1..Len(fetches) |-> fetches[i].skip] = <<0, 2, 4, 5>>
    /\ Got(fetches) = <<2, 2, 1, 0>>
    /\ pc = "done" /\ Len(file) = 5

\* C20: a dual-sink run that fails at the credentials, the connection or
\* the table has fetched nothing and has not touched the output path (an
\* earlier run's file is as it was), while the sidecar is written.
C20_FailBeforeFetchAndOpen ==
    (snowflake /\ err \in {"ConfigError", "ConnectError", "TableError"}) =>
        /\ fetches = <<>> /\ yielded = <<>>
        /\ fstate = "unopened"
        /\ file_exists = prior_file
        /\ file = PriorContent
        /\ meta_written
        /\ pc \in {"sf_finally", "done"}

C20_Witness ==
    /\ snowflake /\ err = "TableError" /\ pc = "done"
    /\ prior_file /\ file = StaleFile
    /\ meta_written
====
